---- MODULE Spec2Model ----
(***************************************************************************)
(* Itinerary backend: slug derivation (models.py), the polymorphic image   *)
(* link table (functions.py) and the create / get / delete handlers        *)
(* (itinerary/itinerary.py) over a SQLite store shared by request sessions  *)
(* (database.py).                                                          *)
(***************************************************************************)
EXTENDS Integers, Sequences, FiniteSets, TLC

\* ------------------------------------------------------------------ bounds
\* longest title enumerated for the pure slug derivation
MaxLen == 4
\* number of requests served in one behaviour
MaxOps == 3

\* ------------------------------------------------------------------ values
None == "None"

\* the two request sessions that may be open at the same time
Req == {1, 2}

\* ------------------------------------------------------------------ slugify
\* One-character tokens.  "A" upper-case letter, "a" lower-case letter,
\* "_" underscore, " " whitespace, "-" hyphen, "!" punctuation,
\* "Idot" U+0130 (capital I with dot above), "i" its base letter and
\* "cdot" U+0307 (combining dot above, category Mn).
Chars == {"A", "a", "_", " ", "-", "!", "Idot", "cdot"}

\* \w of a str pattern: alphanumerics and underscore; a combining mark is not
IsWord(c) == c \in {"A", "a", "i", "_", "Idot"}

\* \s
IsSpace(c) == c = " "

IsHyphen(c) == c = "-"

\* str.lower() of one character; U+0130 lowers to the two code points
\* U+0069 U+0307
LowerChar(c) ==
    CASE c = "A" -> <<"a">>
      [] c = "Idot" -> <<"i", "cdot">>
      [] OTHER -> <<c>>

RECURSIVE Lower(_)
Lower(s) == IF s = <<>> THEN <<>> ELSE LowerChar(Head(s)) \o Lower(Tail(s))

\* re.sub(r"[^\w\s-]", "", value)
RECURSIVE RemoveOther(_)
RemoveOther(s) ==
    IF s = <<>> THEN <<>>
    ELSE IF IsWord(Head(s)) \/ IsSpace(Head(s)) \/ IsHyphen(Head(s))
         THEN <<Head(s)>> \o RemoveOther(Tail(s))
         ELSE RemoveOther(Tail(s))

RECURSIVE LStrip(_)
LStrip(s) == IF s # <<>> /\ IsSpace(Head(s)) THEN LStrip(Tail(s)) ELSE s

RECURSIVE RStrip(_)
RStrip(s) ==
    IF s # <<>> /\ IsSpace(s[Len(s)]) THEN RStrip(SubSeq(s, 1, Len(s) - 1)) ELSE s

\* str.strip()
Strip(s) == RStrip(LStrip(s))

\* the rest of a string after a leading run of [-\s]
RECURSIVE SkipRun(_)
SkipRun(s) ==
    IF s # <<>> /\ (IsHyphen(Head(s)) \/ IsSpace(Head(s))) THEN SkipRun(Tail(s)) ELSE s

\* re.sub(r"[-\s]+", "-", value): every maximal run becomes one hyphen
RECURSIVE Collapse(_)
Collapse(s) ==
    IF s = <<>> THEN <<>>
    ELSE IF IsHyphen(Head(s)) \/ IsSpace(Head(s))
         THEN <<"-">> \o Collapse(SkipRun(Tail(s)))
         ELSE <<Head(s)>> \o Collapse(Tail(s))

\* models.py slugify
slugify(value) == Collapse(Lower(Strip(RemoveOther(value))))


\* ------------------------------------------------------------------ payloads
\* An optional value is a sequence of length 0 (None) or 1.
Some(x) == <<x>>

\* ImageCreateSchema
Img(pid) == [url |-> "u", public_id |-> pid]

\* HotelDetailCreateSchema
Hotel(imgs) == [name |-> "h", images |-> imgs]

\* ItineraryDayCreateSchema
Day(n, imgs, hotel) == [day_number |-> n, images |-> imgs, hotel_detail |-> hotel]

\* ItineraryCreateSchema; overview stands for every scalar that create_itinerary
\* copies unchanged (overview, duration, cities, accommodation, location, costs)
Payload(t, disc, imgs, ds, m, tgs) ==
    [title |-> t, overview |-> "o", discount |-> disc, price |-> 100,
     images |-> imgs, days |-> ds, map |-> m, tags |-> tgs]

\* images at every level, one of them without a remote identifier
PFull ==
    Payload(<<"A", " ", "a">>, <<>>, <<Img("p1"), Img("")>>,
            <<Day(1, <<Img("p2")>>, <<>>), Day(2, <<>>, Some(Hotel(<<>>)))>>,
            Some([image |-> Some(Img("p3"))]), <<"t1", "t2">>)

\* another title with the slug of PFull
PSame == Payload(<<"a", "-", "a">>, Some(10), <<Img("q1")>>, <<>>, <<>>, <<>>)

\* a hotel with an image, a map without an image
PBare ==
    Payload(<<"_">>, Some(0), <<>>, <<Day(1, <<>>, Some(Hotel(<<Img("p4")>>)))>>,
            Some([image |-> <<>>]), <<"t">>)

\* the empty title
PNoTitle == Payload(<<>>, <<>>, <<>>, <<>>, <<>>, <<>>)

\* a title of punctuation only: its slug is the empty string
PBang == Payload(<<"!">>, <<>>, <<>>, <<>>, <<>>, <<>>)

Payloads == {PFull, PSame, PBare, PNoTitle, PBang}

\* slugs asked for by get and delete: those of the payloads and an unknown one
Slugs == {slugify(P.title) : P \in Payloads} \cup {<<"a">>}

\* ------------------------------------------------------------------ state
VARIABLES
    db,       \* the committed tables of the SQLite file
    txn,      \* per session: rows flushed in its open transaction
    writer,   \* the session holding SQLite's write lock, 0 when free
    op,       \* per session: the handler it runs ("idle" when none yet)
    arg,      \* per session: the request (a payload or a slug)
    pc,       \* per session: position in the handler
    ctx,      \* per session: the handler's local variables
    resp,     \* per session: the HTTP response once the handler ended
    calls,    \* per session: cloudinary.uploader.destroy calls it issued
    fault,    \* per session: TRUE once the storage layer raised at a step
    ops,      \* number of requests accepted
    origin,   \* history: the payload each committed itinerary came from
    gone,     \* history: the itineraries a delete removed
    sTitle,   \* slug derivation: the title
    sOut      \* slug derivation: <<>> until derived, then <<slugify(sTitle)>>

vars == <<db, txn, writer, op, arg, pc, ctx, resp, calls, fault, ops,
          origin, gone, sTitle, sOut>>

svcVars == <<db, txn, writer, op, arg, pc, ctx, resp, calls, fault, ops,
             origin, gone>>

slugVars == <<sTitle, sOut>>

\* Base.metadata tables
Tables == {"itineraries", "itinerary_days", "hotel_details", "maps", "tags",
           "images", "image_links"}

EmptyDb == [t \in Tables |-> {}]

Merge(a, b) == [t \in Tables |-> a[t] \cup b[t]]

NoResp == [status |-> 0, detail |-> <<>>, body |-> <<>>]

\* generate_id: a fresh identifier.  The k-th row built by the n-th request
\* gets n * IdBase + k, so that no identifier is ever handed out twice.
IdBase == 100

NoCtx == [step |-> 0, root |-> 0, day |-> 0, hotel |-> 0, map |-> 0, ord |-> 0, seq |-> 0]

\* the j-th identifier generated after those a handler already used
generate_id(c, j) == c.ord * IdBase + c.seq + j

\* history: the identifiers of the rows a create request built
Made(c) == {c.ord * IdBase + j : j \in 1..c.seq}

InitSvc ==
    /\ db = EmptyDb
    /\ txn = [r \in Req |-> EmptyDb]
    /\ writer = 0
    /\ op = [r \in Req |-> "idle"]
    /\ arg = [r \in Req |-> <<>>]
    /\ pc = [r \in Req |-> "idle"]
    /\ ctx = [r \in Req |-> NoCtx]
    /\ resp = [r \in Req |-> NoResp]
    /\ calls = [r \in Req |-> <<>>]
    /\ fault = [r \in Req |-> FALSE]
    /\ ops = 0
    /\ origin = {}
    /\ gone = {}

Init == InitSvc /\ sTitle = <<>> /\ sOut = <<>>


\* ------------------------------------------------------------------ reads
RECURSIVE SortById(_)
SortById(S) ==
    IF S = {} THEN <<>>
    ELSE LET m == CHOOSE x \in S : \A y \in S : x.id <= y.id
         IN <<m>> \o SortById(S \ {m})

\* the viewonly `images` relationships: Image joined through image_links on
\* (entity_type, entity_id)
ImagesFor(d, etype, eid) ==
    SortById({i \in d["images"] :
                \E l \in d["image_links"] :
                    l.image_id = i.id /\ l.entity_type = etype /\ l.entity_id = eid})

\* db.query(Itinerary).filter(Itinerary.slug == slug)
BySlug(d, slug) == {i \in d["itineraries"] : i.slug = slug}

\* selectinload(ItineraryDay.hotel_detail).selectinload(HotelDetail.images)
LoadHotel(d, dayId) ==
    LET hs == {h \in d["hotel_details"] : h.day_id = dayId}
    IN IF hs = {} THEN <<>>
       ELSE LET h == CHOOSE x \in hs : TRUE
            IN <<[row |-> h, images |-> ImagesFor(d, "hotel_detail", h.id)]>>

\* selectinload(Itinerary.days).selectinload(ItineraryDay.images)
LoadDays(d, itId) ==
    LET ds == SortById({x \in d["itinerary_days"] : x.itinerary_id = itId})
    IN [k \in 1..Len(ds) |->
          [row |-> ds[k],
           images |-> ImagesFor(d, "itinerary_day", ds[k].id),
           hotel_detail |-> LoadHotel(d, ds[k].id)]]

\* selectinload(Itinerary.map).selectinload(Map.image); uselist=False
LoadMap(d, itId) ==
    LET ms == {m \in d["maps"] : m.itinerary_id = itId}
    IN IF ms = {} THEN <<>>
       ELSE LET m == CHOOSE x \in ms : TRUE
                im == ImagesFor(d, "map", m.id)
            IN <<[row |-> m, image |-> IF im = <<>> THEN <<>> ELSE <<im[1]>>]>>

\* the eager-loaded object graph of one itinerary row.  The SELECTs of one
\* load are taken together: a sub-graph is committed and deleted as a whole,
\* so a load that sees the itinerary row sees its rows or finds them deleted.
LoadGraph(d, it) ==
    [row |-> it,
     images |-> ImagesFor(d, "itinerary", it.id),
     days |-> LoadDays(d, it.id),
     map |-> LoadMap(d, it.id),
     tags |-> SortById({t \in d["tags"] : t.itinerary_id = it.id})]

\* ------------------------------------------------------------------ responses
Response(st, det, b) == [status |-> st, detail |-> det, body |-> b]

HTTPException(st, msg) == [type |-> "HTTPException", status |-> st, detail |-> <<msg>>]

SQLAlchemyError == [type |-> "SQLAlchemyError", status |-> 0, detail |-> <<"db">>]

ValidationError == [type |-> "ValidationError", status |-> 0, detail |-> <<"validation">>]

\* the except clauses of get_itinerary, in order; HTTPException is an Exception
GetExcept(e) ==
    IF e.type = "SQLAlchemyError" THEN Response(500, <<"Database error occurred">>, <<>>)
    ELSE IF e.type = "ValidationError" THEN Response(422, <<"Data validation error">>, <<>>)
    ELSE Response(500, <<"An unexpected error occurred: ">> \o e.detail, <<>>)

\* delete_itinerary without its `except HTTPException: raise` clause
DeleteExceptNoReraise(e) ==
    IF e.type = "SQLAlchemyError" THEN Response(500, <<"Database error occurred">>, <<>>)
    ELSE Response(500, <<"An unexpected error occurred: ">> \o e.detail, <<>>)

\* the except clauses of delete_itinerary, in order
DeleteExcept(e) ==
    IF e.type = "HTTPException" THEN Response(e.status, e.detail, <<>>)
    ELSE IF e.type = "SQLAlchemyError" THEN Response(500, <<"Database error occurred">>, <<>>)
    ELSE Response(500, <<"An unexpected error occurred: ">> \o e.detail, <<>>)

\* create_itinerary has no except clause: the framework answers 500
Unhandled == Response(500, <<"Internal Server Error">>, <<>>)

\* attributes of a loaded Itinerary object
ItineraryAttrs(g) == DOMAIN g.row \cup {"images", "days", "map", "tags"}

\* fields of ItinerarySchema
ItinerarySchemaFields ==
    {"id", "title", "overview", "slug", "discount", "price", "images", "days",
     "map", "tags"}

\* MapSchema reads `images`, an attribute Map does not have: the default None
MapSchema(m) == [id |-> m.row.id, images |-> <<>>]

HotelDetailSchema(h) == [id |-> h.row.id, images |-> h.images]

ItineraryDaySchema(dy) ==
    [id |-> dy.row.id, day_number |-> dy.row.day_number, images |-> dy.images,
     hotel_detail |-> IF dy.hotel_detail = <<>> THEN <<>>
                      ELSE <<HotelDetailSchema(dy.hotel_detail[1])>>]

\* ItinerarySchema.model_validate(itinerary), from_attributes
ItinerarySchema(g) ==
    [id |-> g.row.id, title |-> g.row.title, overview |-> g.row.overview,
     slug |-> g.row.slug, discount |-> g.row.discount,
     price |-> IF "price" \in DOMAIN g.row THEN g.row.price ELSE 0,
     images |-> g.images,
     days |-> [k \in 1..Len(g.days) |-> ItineraryDaySchema(g.days[k])],
     map |-> IF g.map = <<>> THEN <<>> ELSE <<MapSchema(g.map[1])>>,
     tags |-> g.tags]

\* a required field the object lacks fails validation
Validates(g) == ItinerarySchemaFields \subseteq ItineraryAttrs(g)

\* ------------------------------------------------------------------ requests
Running(r) == pc[r] \notin {"idle", "done"}

\* a request reaches a handler on a fresh session (the handler's first
\* statement runs at once); the sessions being interchangeable, the second
\* one is used only while the first is busy
Accept(r, o, a) ==
    /\ ~Running(r)
    /\ \A q \in Req : q < r => Running(q)
    /\ ops < MaxOps
    /\ ops' = ops + 1
    /\ op' = [op EXCEPT ![r] = o]
    /\ arg' = [arg EXCEPT ![r] = a]
    /\ calls' = [calls EXCEPT ![r] = <<>>]

\* GET /itineraries/{slug}
get_itinerary(r, slug) ==
    /\ Accept(r, "get", slug)
    /\ LET found == BySlug(db, slug)
           out == IF found = {}
                  THEN GetExcept(HTTPException(404, "Itinerary not found"))
                  ELSE LET g == LoadGraph(db, CHOOSE i \in found : TRUE)
                       IN IF Validates(g) THEN Response(200, <<>>, <<ItinerarySchema(g)>>)
                          ELSE GetExcept(ValidationError)
       IN /\ resp' = [resp EXCEPT ![r] = out]
          /\ ctx' = [ctx EXCEPT ![r] =
                       [hit |-> found # {},
                        id |-> IF found = {} THEN 0 ELSE (CHOOSE i \in found : TRUE).id]]
    /\ pc' = [pc EXCEPT ![r] = "done"]
    /\ fault' = [fault EXCEPT ![r] = FALSE]
    /\ UNCHANGED <<db, txn, writer, origin, gone, slugVars>>


\* ------------------------------------------------------------------ create
\* `request.discount or 0`
OrZero(d) == IF d = <<>> THEN 0 ELSE d[1]

\* before_insert listener create_itinerary_slug: the slug column after it ran,
\* <<>> when it stays NULL
create_itinerary_slug(title) == IF title # <<>> THEN <<slugify(title)>> ELSE <<>>

\* add_images_with_links leaving its loop after the first image
ImageStepsFirstOnly(owner, d, imgs) ==
    [i \in 1..(IF imgs = <<>> THEN 0 ELSE 1) |->
        [k |-> "image", owner |-> owner, d |-> d, i |-> i]]

\* the flush points of create_itinerary for one payload, in program order
ImageSteps(owner, d, imgs) ==
    [i \in 1..Len(imgs) |-> [k |-> "image", owner |-> owner, d |-> d, i |-> i]]

DaySteps(P, d) ==
    <<[k |-> "day", owner |-> "", d |-> d, i |-> 0]>>
    \o ImageSteps("itinerary_day", d, P.days[d].images)
    \o (IF P.days[d].hotel_detail # <<>>
        THEN <<[k |-> "hotel", owner |-> "", d |-> d, i |-> 0]>>
             \o ImageSteps("hotel_detail", d, P.days[d].hotel_detail[1].images)
        ELSE <<>>)

RECURSIVE AllDaySteps(_, _)
AllDaySteps(P, d) ==
    IF d > Len(P.days) THEN <<>> ELSE DaySteps(P, d) \o AllDaySteps(P, d + 1)

Plan(P) ==
    <<[k |-> "root", owner |-> "", d |-> 0, i |-> 0]>>
    \o ImageSteps("itinerary", 0, P.images)
    \o AllDaySteps(P, 1)
    \o (IF P.map # <<>> /\ P.map[1].image # <<>>
        THEN <<[k |-> "map", owner |-> "", d |-> 0, i |-> 0],
               [k |-> "image", owner |-> "map", d |-> 0, i |-> 1]>>
        ELSE <<>>)
    \o <<[k |-> "commit", owner |-> "", d |-> 0, i |-> 0],
         [k |-> "refresh", owner |-> "", d |-> 0, i |-> 0]>>

\* the statement a running create request is at
At(r) == Plan(arg[r])[ctx[r].step]

InCreate(r, kind) == op[r] = "create" /\ pc[r] = "run" /\ At(r).k = kind

\* SQLite lets one connection write at a time; another waits for the lock
CanWrite(r) == writer \in {0, r}

\* a session whose close() commits what is pending
SessionCloseCommits(d, pending) == [t \in Tables |-> d[t] \cup pending[t]]

\* leaving the `with Session(engine)` block: close() rolls back what is pending
SessionClose(d, pending) == d

\* the exception leaves the handler and the session is closed
CreateAbort(r) ==
    /\ db' = SessionClose(db, txn[r])
    /\ txn' = [txn EXCEPT ![r] = EmptyDb]
    /\ writer' = IF writer = r THEN 0 ELSE writer
    /\ resp' = [resp EXCEPT ![r] = Unhandled]
    /\ pc' = [pc EXCEPT ![r] = "done"]

\* on to the next statement, n more identifiers being used
Advance(r, c, n) == ctx' = [ctx EXCEPT ![r] = [c EXCEPT !.step = @ + 1, !.seq = @ + n]]

Pending(r, table, rows) == txn' = [txn EXCEPT ![r][table] = @ \cup rows]

\* the slug column without unique=True
SlugNotNullOnly(d, slug) == slug = <<>>

\* the constraints of the slug column, nullable=False and unique=True, as the
\* INSERT of an itinerary checks them
SlugConstraintFails(d, slug) == slug = <<>> \/ BySlug(d, slug[1]) # {}

\* Itinerary(...); db.add(new_itinerary); db.flush()
CreateRoot(r, P) ==
    /\ Accept(r, "create", P)
    /\ CanWrite(r)
    /\ LET
           slug == create_itinerary_slug(P.title)
           c == [NoCtx EXCEPT !.ord = ops + 1]
           row == [id |-> generate_id(c, 1), title |-> P.title, overview |-> P.overview,
                   slug |-> IF slug = <<>> THEN <<>> ELSE slug[1],
                   discount |-> OrZero(P.discount)]
       IN IF SlugConstraintFails(db, slug)
          THEN \* IntegrityError
               /\ CreateAbort(r)
               /\ ctx' = [ctx EXCEPT ![r] = NoCtx]
          ELSE /\ Pending(r, "itineraries", {row})
               /\ writer' = r
               /\ ctx' = [ctx EXCEPT ![r] = [c EXCEPT !.step = 2, !.root = row.id, !.seq = 1]]
               /\ pc' = [pc EXCEPT ![r] = "run"]
               /\ resp' = [resp EXCEPT ![r] = NoResp]
               /\ UNCHANGED db
    /\ fault' = [fault EXCEPT ![r] = FALSE]
    /\ UNCHANGED <<origin, gone, slugVars>>

\* the image list and the owner of the add_images_with_links call at a step
StepImage(P, st) ==
    CASE st.owner = "itinerary" -> P.images[st.i]
      [] st.owner = "itinerary_day" -> P.days[st.d].images[st.i]
      [] st.owner = "hotel_detail" -> P.days[st.d].hotel_detail[1].images[st.i]
      [] st.owner = "map" -> P.map[1].image[1]

StepOwner(c, st) ==
    CASE st.owner = "itinerary" -> c.root
      [] st.owner = "itinerary_day" -> c.day
      [] st.owner = "hotel_detail" -> c.hotel
      [] st.owner = "map" -> c.map

\* the ImageLink row add_images_with_links builds for a flushed image
ImageLink(lid, imageId, etype, eid) ==
    [id |-> lid, image_id |-> imageId, entity_type |-> etype, entity_id |-> eid]

\* one turn of the loop of add_images_with_links
add_images_with_links(r) ==
    /\ InCreate(r, "image")
    /\ LET st == At(r)
           img == StepImage(arg[r], st)
           image_obj == [id |-> generate_id(ctx[r], 1), url |-> img.url,
                         public_id |-> img.public_id]
           link == ImageLink(generate_id(ctx[r], 2), image_obj.id, st.owner,
                             StepOwner(ctx[r], st))
       IN txn' = [txn EXCEPT ![r]["images"] = @ \cup {image_obj},
                             ![r]["image_links"] = @ \cup {link}]
    /\ Advance(r, ctx[r], 2)
    /\ UNCHANGED <<db, writer, op, arg, pc, resp, calls, fault, ops, origin, gone,
                   slugVars>>

\* ItineraryDay(...); db.add(day_obj); db.flush()
CreateDay(r) ==
    /\ InCreate(r, "day")
    /\ LET day == arg[r].days[At(r).d]
       IN Pending(r, "itinerary_days",
                  {[id |-> generate_id(ctx[r], 1), day_number |-> day.day_number,
                    itinerary_id |-> ctx[r].root]})
    /\ Advance(r, [ctx[r] EXCEPT !.day = generate_id(ctx[r], 1)], 1)
    /\ UNCHANGED <<db, writer, op, arg, pc, resp, calls, fault, ops, origin, gone,
                   slugVars>>

\* HotelDetail(...); db.add(hotel); db.flush()
CreateHotel(r) ==
    /\ InCreate(r, "hotel")
    /\ Pending(r, "hotel_details", {[id |-> generate_id(ctx[r], 1), day_id |-> ctx[r].day]})
    /\ Advance(r, [ctx[r] EXCEPT !.hotel = generate_id(ctx[r], 1)], 1)
    /\ UNCHANGED <<db, writer, op, arg, pc, resp, calls, fault, ops, origin, gone,
                   slugVars>>

\* Map(itinerary=new_itinerary); db.add(map_obj); db.flush()
CreateMap(r) ==
    /\ InCreate(r, "map")
    /\ Pending(r, "maps", {[id |-> generate_id(ctx[r], 1), itinerary_id |-> ctx[r].root]})
    /\ Advance(r, [ctx[r] EXCEPT !.map = generate_id(ctx[r], 1)], 1)
    /\ UNCHANGED <<db, writer, op, arg, pc, resp, calls, fault, ops, origin, gone,
                   slugVars>>

\* the Tag rows of the tags loop, flushed by the commit
TagRows(P, c) ==
    {[id |-> generate_id(c, k), item |-> P.tags[k], itinerary_id |-> c.root] :
        k \in 1..Len(P.tags)}

\* what a commit of the pending rows leaves in the tables
Commit(d, pending) == Merge(d, pending)

\* the tags loop and db.commit()
CreateCommit(r) ==
    /\ InCreate(r, "commit")
    /\ LET tags == TagRows(arg[r], ctx[r])
       IN db' = Commit(db, [txn[r] EXCEPT !["tags"] = @ \cup tags])
    /\ txn' = [txn EXCEPT ![r] = EmptyDb]
    /\ writer' = 0
    /\ origin' = origin \cup {[id |-> ctx[r].root, payload |-> arg[r]]}
    /\ Advance(r, ctx[r], Len(arg[r].tags))
    /\ UNCHANGED <<op, arg, pc, resp, calls, fault, ops, gone, slugVars>>

\* db.refresh(new_itinerary) and the 201 response
CreateRefresh(r) ==
    /\ InCreate(r, "refresh")
    /\ resp' = [resp EXCEPT ![r] =
                  IF \E i \in db["itineraries"] : i.id = ctx[r].root
                  THEN Response(201, <<"Itinerary created successfully">>, <<ctx[r].root>>)
                  ELSE \* the row is gone: InvalidRequestError
                       Unhandled]
    /\ pc' = [pc EXCEPT ![r] = "done"]
    /\ UNCHANGED <<db, txn, writer, op, arg, ctx, calls, fault, ops, origin,
                   gone, slugVars>>


\* ------------------------------------------------------------------ delete
\* `if img and img.public_id`
HasPublicId(img) == img.public_id # ""

RECURSIVE WithPublicId(_)
WithPublicId(imgs) ==
    IF imgs = <<>> THEN <<>>
    ELSE (IF HasPublicId(Head(imgs)) THEN <<Head(imgs)>> ELSE <<>>)
         \o WithPublicId(Tail(imgs))

RECURSIVE DayImages(_)
DayImages(ds) ==
    IF ds = <<>> THEN <<>>
    ELSE WithPublicId(Head(ds).images)
         \o (IF Head(ds).hotel_detail # <<>>
             THEN WithPublicId(Head(ds).hotel_detail[1].images)
             ELSE <<>>)
         \o DayImages(Tail(ds))

\* the images the loops of delete_itinerary pass to destroy, in program order:
\* itinerary images, the map image, then per day its images and its hotel's
DestroyOrder(g) ==
    WithPublicId(g.images)
    \o (IF g.map # <<>> THEN WithPublicId(g.map[1].image) ELSE <<>>)
    \o DayImages(g.days)

\* the query of delete_itinerary, the 400 and 404 exits
DeleteLoad(r, slug) ==
    /\ Accept(r, "delete", slug)
    /\ LET found == BySlug(db, slug)
       IN IF slug = <<>>
          THEN /\ resp' = [resp EXCEPT ![r] = Response(400, <<"No slug was provided">>, <<>>)]
               /\ pc' = [pc EXCEPT ![r] = "done"]
               /\ ctx' = [ctx EXCEPT ![r] = [hit |-> FALSE]]
          ELSE IF found = {}
          THEN /\ resp' = [resp EXCEPT ![r] =
                             DeleteExcept(HTTPException(404, "Itinerary not found"))]
               /\ pc' = [pc EXCEPT ![r] = "done"]
               /\ ctx' = [ctx EXCEPT ![r] = [hit |-> FALSE]]
          ELSE LET g == LoadGraph(db, CHOOSE i \in found : TRUE)
               IN /\ ctx' = [ctx EXCEPT ![r] =
                               [hit |-> TRUE, graph |-> g, queue |-> DestroyOrder(g)]]
                  /\ pc' = [pc EXCEPT ![r] =
                              IF DestroyOrder(g) = <<>> THEN "dbdelete" ELSE "cloud"]
                  /\ resp' = [resp EXCEPT ![r] = NoResp]
    /\ fault' = [fault EXCEPT ![r] = FALSE]
    /\ UNCHANGED <<db, txn, writer, origin, gone, slugVars>>

\* what cloudinary.uploader.destroy can do: return an "ok" result, return a
\* "not found" result, or raise (network, credentials)
DestroyOutcomes == {"ok", "not found", "raise"}

\* the images still to be passed to destroy after one call ended with `outcome`:
\* an exception leaves the single try block around all the loops
AfterDestroy(queue, outcome) == IF outcome = "raise" THEN <<>> ELSE Tail(queue)

CloudinaryError == [type |-> "Exception", status |-> 0, detail |-> <<"cloudinary">>]

\* the loops without their try block: the exception leaves them
CloudExceptMissing(e) == <<e>>

\* `except Exception as cloudinary_error` around the loops: the exceptions that
\* leave it (none: it logs and falls through to the database deletion)
CloudExcept(e) == <<>>

\* one cloudinary.uploader.destroy call of the loops
CloudDestroy(r, outcome) ==
    /\ op[r] = "delete" /\ pc[r] = "cloud"
    /\ LET img == Head(ctx[r].queue)
           rest == AfterDestroy(ctx[r].queue, outcome)
           escaped == IF outcome = "raise" THEN CloudExcept(CloudinaryError) ELSE <<>>
       IN /\ calls' = [calls EXCEPT ![r] =
                         Append(@, [image |-> img.id, public_id |-> img.public_id,
                                    outcome |-> outcome])]
          /\ ctx' = [ctx EXCEPT ![r].queue = rest]
          /\ IF escaped = <<>>
             THEN /\ pc' = [pc EXCEPT ![r] = IF rest = <<>> THEN "dbdelete" ELSE "cloud"]
                  /\ UNCHANGED resp
             ELSE \* the outer handlers: db.rollback() and the error response
                  /\ pc' = [pc EXCEPT ![r] = "done"]
                  /\ resp' = [resp EXCEPT ![r] = DeleteExcept(escaped[1])]
    /\ UNCHANGED <<db, txn, writer, op, arg, fault, ops, origin, gone,
                   slugVars>>

\* Itinerary.images as a cascading relationship: its images go with it
CascadeWithImages(g) ==
    [t \in Tables |->
       CASE t = "itineraries" -> {g.row.id}
         [] t = "itinerary_days" -> {g.days[k].row.id : k \in 1..Len(g.days)}
         [] t = "hotel_details" ->
              {g.days[k].hotel_detail[1].row.id :
                  k \in {j \in 1..Len(g.days) : g.days[j].hotel_detail # <<>>}}
         [] t = "maps" -> IF g.map = <<>> THEN {} ELSE {g.map[1].row.id}
         [] t = "tags" -> {g.tags[k].id : k \in 1..Len(g.tags)}
         [] t = "images" -> {g.images[k].id : k \in 1..Len(g.images)}
         [] OTHER -> {}]

\* ItineraryDay.hotel_detail without its cascade
CascadeWithoutHotel(g) ==
    [t \in Tables |->
       CASE t = "itineraries" -> {g.row.id}
         [] t = "itinerary_days" -> {g.days[k].row.id : k \in 1..Len(g.days)}
         [] t = "maps" -> IF g.map = <<>> THEN {} ELSE {g.map[1].row.id}
         [] t = "tags" -> {g.tags[k].id : k \in 1..Len(g.tags)}
         [] OTHER -> {}]

\* the primary keys the unit of work deletes: the itinerary and, by the
\* cascade="all, delete-orphan" relationships, its loaded days, their hotel
\* details, its map and its tags; the viewonly image relationships delete nothing
Cascade(g) ==
    [t \in Tables |->
       CASE t = "itineraries" -> {g.row.id}
         [] t = "itinerary_days" -> {g.days[k].row.id : k \in 1..Len(g.days)}
         [] t = "hotel_details" ->
              {g.days[k].hotel_detail[1].row.id :
                  k \in {j \in 1..Len(g.days) : g.days[j].hotel_detail # <<>>}}
         [] t = "maps" -> IF g.map = <<>> THEN {} ELSE {g.map[1].row.id}
         [] t = "tags" -> {g.tags[k].id : k \in 1..Len(g.tags)}
         [] OTHER -> {}]

DeleteRows(d, keys) == [t \in Tables |-> {x \in d[t] : x.id \notin keys[t]}]

\* db.delete(itinerary); db.commit() and the 200 response.  Rows another
\* session already deleted match no DELETE; the unit of work then either goes
\* on (this action) or raises (DeleteDbError).
DeleteCommit(r) ==
    /\ op[r] = "delete" /\ pc[r] = "dbdelete"
    /\ CanWrite(r)
    /\ LET g == ctx[r].graph
       IN /\ db' = DeleteRows(db, Cascade(g))
          /\ gone' = gone \cup {[id |-> i.id, slug |-> i.slug] :
                                   i \in {x \in db["itineraries"] : x.id = g.row.id}}
          /\ resp' = [resp EXCEPT ![r] =
                        Response(200, <<"Itinerary deleted successfully">>, <<g.row.title>>)]
    /\ pc' = [pc EXCEPT ![r] = "done"]
    /\ UNCHANGED <<txn, writer, op, arg, ctx, calls, fault, ops, origin,
                   slugVars>>

\* ------------------------------------------------------------------ storage errors
\* The storage layer raises at a statement (database is locked, I/O error,
\* primary-key collision of the random identifiers).

\* in get_itinerary's query
GetDbError(r, slug) ==
    /\ Accept(r, "get", slug)
    /\ resp' = [resp EXCEPT ![r] = GetExcept(SQLAlchemyError)]
    /\ ctx' = [ctx EXCEPT ![r] = [hit |-> FALSE, id |-> 0]]
    /\ pc' = [pc EXCEPT ![r] = "done"]
    /\ fault' = [fault EXCEPT ![r] = TRUE]
    /\ UNCHANGED <<db, txn, writer, origin, gone, slugVars>>

\* in delete_itinerary's query: db.rollback()
DeleteQueryError(r, slug) ==
    /\ Accept(r, "delete", slug)
    /\ slug # <<>>
    /\ resp' = [resp EXCEPT ![r] = DeleteExcept(SQLAlchemyError)]
    /\ ctx' = [ctx EXCEPT ![r] = [hit |-> FALSE]]
    /\ pc' = [pc EXCEPT ![r] = "done"]
    /\ fault' = [fault EXCEPT ![r] = TRUE]
    /\ UNCHANGED <<db, txn, writer, origin, gone, slugVars>>

\* an except clause without its db.rollback(): the flushed statements stay
RollbackMissing(d, flushed) == flushed

\* db.rollback() in the except clauses of delete_itinerary: the tables are as
\* they were before the statements the transaction had flushed
Rollback(d, flushed) == d

\* in delete_itinerary's delete and commit, the DELETEs of the unit of work
\* being flushed when the commit fails: db.rollback() and the 500 response
DeleteDbError(r) ==
    /\ op[r] = "delete" /\ pc[r] = "dbdelete"
    /\ db' = Rollback(db, DeleteRows(db, Cascade(ctx[r].graph)))
    /\ resp' = [resp EXCEPT ![r] = DeleteExcept(SQLAlchemyError)]
    /\ pc' = [pc EXCEPT ![r] = "done"]
    /\ fault' = [fault EXCEPT ![r] = TRUE]
    /\ UNCHANGED <<txn, writer, op, arg, ctx, calls, ops, origin, gone,
                   slugVars>>

\* in the first flush of create_itinerary
CreateRootError(r, P) ==
    /\ Accept(r, "create", P)
    /\ CreateAbort(r)
    /\ ctx' = [ctx EXCEPT ![r] = NoCtx]
    /\ fault' = [fault EXCEPT ![r] = TRUE]
    /\ UNCHANGED <<origin, gone, slugVars>>

\* in a later flush or the commit of create_itinerary
CreateDbError(r) ==
    /\ op[r] = "create" /\ pc[r] = "run" /\ At(r).k # "refresh"
    /\ CreateAbort(r)
    /\ fault' = [fault EXCEPT ![r] = TRUE]
    /\ UNCHANGED <<op, arg, ctx, calls, ops, origin, gone, slugVars>>

\* in db.refresh, after the commit
RefreshDbError(r) ==
    /\ InCreate(r, "refresh")
    /\ resp' = [resp EXCEPT ![r] = Unhandled]
    /\ pc' = [pc EXCEPT ![r] = "done"]
    /\ fault' = [fault EXCEPT ![r] = TRUE]
    /\ UNCHANGED <<db, txn, writer, op, arg, ctx, calls, ops, origin, gone,
                   slugVars>>

\* ------------------------------------------------------------------ specification
Next ==
    \E r \in Req :
        \/ \E s \in Slugs : get_itinerary(r, s)
        \/ \E P \in Payloads : CreateRoot(r, P)
        \/ add_images_with_links(r)
        \/ CreateDay(r)
        \/ CreateHotel(r)
        \/ CreateMap(r)
        \/ CreateCommit(r)
        \/ CreateRefresh(r)
        \/ \E s \in Slugs : DeleteLoad(r, s)
        \/ \E o \in DestroyOutcomes : CloudDestroy(r, o)
        \/ DeleteCommit(r)
        \/ \E s \in Slugs : GetDbError(r, s)
        \/ \E s \in Slugs : DeleteQueryError(r, s)
        \/ DeleteDbError(r)
        \/ \E P \in Payloads : CreateRootError(r, P)
        \/ CreateDbError(r)
        \/ RefreshDbError(r)

Spec == Init /\ [][Next]_vars

\* ------------------------------------------------------------------ slug derivation alone
TypeChar(c) ==
    /\ sOut = <<>>
    /\ Len(sTitle) < MaxLen
    /\ sTitle' = Append(sTitle, c)
    /\ UNCHANGED <<sOut, svcVars>>

Derive ==
    /\ sOut = <<>>
    /\ sOut' = <<slugify(sTitle)>>
    /\ UNCHANGED <<sTitle, svcVars>>

SlugNext == (\E c \in Chars : TypeChar(c)) \/ Derive

SlugSpec == Init /\ [][SlugNext]_vars


\* ------------------------------------------------------------------ properties
Done(r, o) == op[r] = o /\ pc[r] = "done"

Range(q) == {q[k] : k \in DOMAIN q}

\* the session that takes the next request
Accepting(r) == ~Running(r) /\ \A q \in Req : q < r => Running(q)

\* the rows of the sub-graph of itinerary i, table by table, by foreign key
OwnedRows(d, i) ==
    LET ds == {x \in d["itinerary_days"] : x.itinerary_id = i}
    IN [t \in Tables |->
          CASE t = "itineraries" -> {x \in d[t] : x.id = i}
            [] t = "itinerary_days" -> ds
            [] t = "hotel_details" -> {h \in d[t] : \E dy \in ds : h.day_id = dy.id}
            [] t = "maps" -> {x \in d[t] : x.itinerary_id = i}
            [] t = "tags" -> {x \in d[t] : x.itinerary_id = i}
            [] OTHER -> {}]

GraphTables == Tables \ {"images", "image_links"}

\* every image of a loaded graph: root, days, hotel details, map
GraphImages(g) ==
    Range(g.images)
    \cup (IF g.map # <<>> THEN Range(g.map[1].image) ELSE {})
    \cup UNION {Range(g.days[k].images)
                \cup (IF g.days[k].hotel_detail # <<>>
                      THEN Range(g.days[k].hotel_detail[1].images) ELSE {}) :
                k \in 1..Len(g.days)}

\* C1: a get of a (non-empty) slug no stored itinerary has, the store
\* answering, ends with 404 and the detail "Itinerary not found"
C1_GetUnknownIs404 ==
    \A r \in Req :
        (Done(r, "get") /\ arg[r] # <<>> /\ ~fault[r] /\ ~ctx[r].hit)
        => (resp[r].status = 404 /\ resp[r].detail = <<"Itinerary not found">>)

\* a delete request being accepted for a slug no stored itinerary has, the
\* store answering
DeleteMiss(r) ==
    /\ Accepting(r) /\ ops' = ops + 1
    /\ op'[r] = "delete" /\ ~fault'[r]
    /\ BySlug(db, arg'[r]) = {}

\* C2, as amended: a delete of a slug no stored itinerary has ends at once with
\* 404 (400 when the slug is empty), changes no table and sends nothing to the
\* media host
C2_DeleteUnknownChangesNothing ==
    [][\A r \in Req :
          DeleteMiss(r)
          => /\ pc'[r] = "done"
             /\ resp'[r].status = (IF arg'[r] = <<>> THEN 400 ELSE 404)
             /\ db' = db
             /\ calls'[r] = <<>>]_vars

\* C2 as stated: every such delete ends with 404
C2_DeleteUnknownIs404 ==
    [][\A r \in Req :
          DeleteMiss(r)
          => /\ pc'[r] = "done"
             /\ resp'[r].status = 404
             /\ db' = db
             /\ calls'[r] = <<>>]_vars

\* a delete answered 404 for a slug nobody holds while other itineraries, with
\* images, are stored
C2_Witness ==
    \E r \in Req :
        /\ Done(r, "delete") /\ resp[r].status = 404 /\ arg[r] # <<>>
        /\ BySlug(db, arg[r]) = {}
        /\ db["itineraries"] # {} /\ db["image_links"] # {}

\* the payload a stored itinerary was created from
PayloadOf(id) == (CHOOSE o \in origin : o.id = id).payload

\* C3: a get of the slug of a created itinerary returns 200 and a graph with
\* the payload's scalar fields and nested counts
C3_RoundTrip ==
    \A r \in Req :
        (Done(r, "get") /\ ~fault[r] /\ ctx[r].hit)
        => /\ resp[r].status = 200
           /\ LET P == PayloadOf(ctx[r].id)
                  b == resp[r].body[1]
              IN /\ b.title = P.title /\ b.overview = P.overview
                 /\ b.discount = OrZero(P.discount) /\ b.price = P.price
                 /\ Len(b.images) = Len(P.images)
                 /\ Len(b.tags) = Len(P.tags)
                 /\ Len(b.days) = Len(P.days)
                 /\ \A k \in 1..Len(P.days) :
                       /\ Len(b.days[k].images) = Len(P.days[k].images)
                       /\ Len(b.days[k].hotel_detail) = Len(P.days[k].hotel_detail)
                       /\ P.days[k].hotel_detail # <<>>
                          => Len(b.days[k].hotel_detail[1].images)
                             = Len(P.days[k].hotel_detail[1].images)
                 /\ (b.map # <<>> /\ b.map[1].images # <<>>)
                    <=> (P.map # <<>> /\ P.map[1].image # <<>>)

\* the delete and commit of a delete request succeeding
DeleteOk(r) ==
    /\ op[r] = "delete" /\ pc[r] = "dbdelete"
    /\ pc'[r] = "done" /\ resp'[r].status = 200

\* C4: a successful delete of itinerary I removes I and exactly the day, hotel
\* detail, map and tag rows that belong to I; every other row of these tables
\* stays
C4_CascadeComplete ==
    [][\A r \in Req :
          DeleteOk(r)
          => \A t \in GraphTables :
                db'[t] = db[t] \ OwnedRows(db, ctx[r].graph.row.id)[t]]_vars

\* a delete removed an itinerary with days, a hotel detail, a map and tags
\* while another itinerary with a day and a hotel detail stays stored
C4_Witness ==
    \E r \in Req :
        /\ Done(r, "delete") /\ resp[r].status = 200
        /\ LET g == ctx[r].graph
           IN /\ \E k \in 1..Len(g.days) : g.days[k].hotel_detail # <<>>
              /\ g.map # <<>> /\ g.tags # <<>>
              /\ \E x \in gone : x.id = g.row.id
        /\ db["itineraries"] # {} /\ db["hotel_details"] # {}

\* C5: a delete that found its itinerary and met no storage error answers 200
\* and leaves no row of the itinerary's sub-graph, whatever the media host did
C5_CloudFailureIsolated ==
    \A r \in Req :
        (Done(r, "delete") /\ ctx[r].hit /\ ~fault[r])
        => /\ resp[r].status = 200
           /\ \A t \in GraphTables : OwnedRows(db, ctx[r].graph.row.id)[t] = {}

\* a delete answered 200 although the call for each of its two or more images
\* failed
C5_Witness ==
    \E r \in Req :
        /\ Done(r, "delete") /\ ctx[r].hit /\ resp[r].status = 200
        /\ Len(calls[r]) >= 2
        /\ Len(calls[r]) = Len(DestroyOrder(ctx[r].graph))
        /\ \A k \in 1..Len(calls[r]) : calls[r][k].outcome # "ok"

CallsFor(r, imageId) ==
    Cardinality({k \in 1..Len(calls[r]) : calls[r][k].image = imageId})

\* C6: once the loops of a delete are over, destroy was called exactly once
\* for every attached image that has a remote identifier
C6_EachImageOnce ==
    \A r \in Req :
        (op[r] = "delete" /\ pc[r] \in {"dbdelete", "done"} /\ ctx[r].hit)
        => \A img \in GraphImages(ctx[r].graph) :
              img.public_id # "" => CallsFor(r, img.id) = 1

AllIds(d) == UNION {{x.id : x \in d[t]} : t \in Tables}

\* a create request whose commit has happened
Committed(r) == ctx[r].step > 0 /\ At(r).k = "refresh"

\* C7: no row built by a create request is in the tables before its commit or
\* after it failed at any step up to and including the commit; the commit
\* stores all of its rows at once
C7_CreateAtomic ==
    /\ [](\A r \in Req :
            (op[r] = "create" /\ ~Committed(r)) => AllIds(db) \cap Made(ctx[r]) = {})
    /\ [][\A r \in Req :
            (op[r] = "create" /\ pc[r] = "run" /\ ~Committed(r) /\ Committed(r)')
            => (Made(ctx'[r]) \subseteq AllIds(db') /\ Made(ctx'[r]) \cap AllIds(db) = {})]_vars

\* a create failed after it had flushed five rows or more, other itineraries
\* being stored, and none of its rows is stored
C7_Witness ==
    \E r \in Req :
        /\ Done(r, "create") /\ resp[r].status = 500 /\ ~Committed(r)
        /\ Cardinality(Made(ctx[r])) >= 5
        /\ db["itineraries"] # {}
        /\ AllIds(db) \cap Made(ctx[r]) = {}

SlugUnique ==
    \A i, j \in db["itineraries"] : i.slug = j.slug => i = j

\* an itinerary with this slug is stored or was stored and then deleted
HasWinner(slug) ==
    \/ \E w \in db["itineraries"] : w.slug = slug
    \/ \E w \in gone : w.slug = slug

\* a create request being accepted while an itinerary with its slug is stored
CreateClash(r) ==
    /\ Accepting(r) /\ ops' = ops + 1
    /\ op'[r] = "create"
    /\ BySlug(db, slugify(arg'[r].title)) # {}

\* a create request with a non-empty title being accepted while no itinerary
\* with its slug is stored, the store answering
CreateFree(r) ==
    /\ Accepting(r) /\ ops' = ops + 1
    /\ op'[r] = "create" /\ ~fault'[r]
    /\ arg'[r].title # <<>>
    /\ BySlug(db, slugify(arg'[r].title)) = {}

\* C8, as amended: no two stored itineraries share a slug; a creation whose
\* slug is stored fails with 500 and changes no table; a creation with a
\* non-empty title whose slug is not stored passes its root insert, and one
\* that met no other storage error fails only if an itinerary with its slug
\* was stored (its own, when a delete removed it before the refresh)
C8_SlugUnique ==
    /\ [](SlugUnique
          /\ \A r \in Req :
                (Done(r, "create") /\ ~fault[r] /\ arg[r].title # <<>>
                 /\ resp[r].status # 201)
                => /\ HasWinner(slugify(arg[r].title))
                   /\ ctx[r].step > 0 => \E w \in gone : w.id = ctx[r].root)
    /\ [][\A r \in Req :
            /\ CreateClash(r)
               => (pc'[r] = "done" /\ resp'[r].status = 500 /\ db' = db)
            /\ CreateFree(r) => pc'[r] = "run"]_vars

\* C8 as stated: of the creations with one slug exactly one succeeds, so a
\* creation that met no other storage error fails only if an itinerary with
\* its slug was stored
C8_ExactlyOneSucceeds ==
    /\ SlugUnique
    /\ \A r \in Req :
          (Done(r, "create") /\ ~fault[r] /\ resp[r].status # 201)
          => HasWinner(slugify(arg[r].title))

\* a creation failed on the slug of a stored itinerary with another title
C8_Witness ==
    \E r \in Req :
        /\ Done(r, "create") /\ ~fault[r] /\ resp[r].status = 500
        /\ \E w \in db["itineraries"] :
              w.slug = slugify(arg[r].title) /\ w.title # arg[r].title

\* the table an entity_type names
OwnerTable(etype) ==
    CASE etype = "itinerary" -> "itineraries"
      [] etype = "itinerary_day" -> "itinerary_days"
      [] etype = "hotel_detail" -> "hotel_details"
      [] etype = "map" -> "maps"

\* C9: every stored link's entity_id is the id of a stored row of the table
\* its entity_type names
C9_LinkOwnersExist ==
    \A l \in db["image_links"] :
        \E x \in db[OwnerTable(l.entity_type)] : x.id = l.entity_id

IsLowerCase(c) == LowerChar(c) = <<c>>

\* C10: a derived slug is lower-case, holds only word characters and hyphens,
\* no whitespace, and no two hyphens in a row
C10_SlugShape ==
    sOut # <<>>
    => LET s == sOut[1]
       IN /\ \A k \in 1..Len(s) :
                (IsWord(s[k]) \/ IsHyphen(s[k])) /\ ~IsSpace(s[k]) /\ IsLowerCase(s[k])
          /\ \A k \in 1..(Len(s) - 1) : ~(IsHyphen(s[k]) /\ IsHyphen(s[k + 1]))

\* a delete that found its itinerary and whose delete or commit failed
DeleteFailed(r) == Done(r, "delete") /\ ctx[r].hit /\ fault[r]

\* C11: the destroy calls of a delete are over when its local delete and
\* commit start, and that step issues none; when the delete or commit fails
\* the tables are left as they were and the answer is 500, so the itinerary
\* and its sub-graph stay stored as loaded (until another delete removes
\* them), while the destroy calls already made stay made
C11_FailedDeleteKeepsStore ==
    /\ [](\A r \in Req :
            /\ (op[r] = "delete" /\ pc[r] = "dbdelete") => ctx[r].queue = <<>>
            /\ DeleteFailed(r)
               => /\ resp[r].status = 500
                  /\ \/ \E w \in gone : w.id = ctx[r].graph.row.id
                     \/ /\ ctx[r].graph.row \in db["itineraries"]
                        /\ LoadGraph(db, ctx[r].graph.row) = ctx[r].graph)
    /\ [][\A r \in Req :
            (op[r] = "delete" /\ pc[r] = "dbdelete")
            => /\ calls'[r] = calls[r]
               /\ fault'[r] => db' = db]_vars

\* a delete failed at its commit after a destroy call succeeded: the itinerary
\* with its days is still stored, the remote image is gone
C11_Witness ==
    \E r \in Req :
        /\ DeleteFailed(r) /\ resp[r].status = 500
        /\ \E k \in 1..Len(calls[r]) : calls[r][k].outcome = "ok"
        /\ ctx[r].graph.row \in db["itineraries"]
        /\ ctx[r].graph.days # <<>>
        /\ LoadGraph(db, ctx[r].graph.row) = ctx[r].graph

\* the Link rows of one owner
LinksOf(d, etype, eid) ==
    {l \in d["image_links"] : l.entity_type = etype /\ l.entity_id = eid}

\* the stored sub-graph of itinerary i has the shape of payload P
Mirrors(d, i, P) ==
    LET own == OwnedRows(d, i)
        dq == SortById(own["itinerary_days"])
        hotelsOf(dy) == {h \in d["hotel_details"] : h.day_id = dy.id}
        wantMap == P.map # <<>> /\ P.map[1].image # <<>>
    IN /\ Cardinality(own["itineraries"]) = 1
       /\ Cardinality(LinksOf(d, "itinerary", i)) = Len(P.images)
       /\ Len(dq) = Len(P.days)
       /\ \A k \in 1..Len(dq) :
             /\ dq[k].day_number = P.days[k].day_number
             /\ Cardinality(LinksOf(d, "itinerary_day", dq[k].id)) = Len(P.days[k].images)
             /\ Cardinality(hotelsOf(dq[k])) = Len(P.days[k].hotel_detail)
             /\ \A h \in hotelsOf(dq[k]) :
                   Cardinality(LinksOf(d, "hotel_detail", h.id))
                   = Len(P.days[k].hotel_detail[1].images)
       /\ Cardinality(own["hotel_details"])
          = Cardinality({k \in 1..Len(P.days) : P.days[k].hotel_detail # <<>>})
       /\ Cardinality(own["tags"]) = Len(P.tags)
       /\ {t.item : t \in own["tags"]} = Range(P.tags)
       /\ Cardinality(own["maps"]) = (IF wantMap THEN 1 ELSE 0)
       /\ \A m \in own["maps"] : Cardinality(LinksOf(d, "map", m.id)) = 1

\* the itinerary of a create request is stored: committed and not deleted since
Stored(r) ==
    /\ op[r] = "create" /\ Committed(r)
    /\ ~\E w \in gone : w.id = ctx[r].root

\* C12: the committed graph of a create request has one day row per payload
\* day, a hotel row for exactly the days with a hotel detail, one tag row per
\* payload tag, a map row exactly when the payload has a map image and then
\* one "map" link, and per owner as many links as the payload lists images;
\* a creation that passed its root insert and met no storage error answers
\* 201 whatever optional parts its payload lacks
C12_GraphMirrorsPayload ==
    \A r \in Req :
        /\ Stored(r) => Mirrors(db, ctx[r].root, arg[r])
        /\ (Done(r, "create") /\ ~fault[r] /\ ctx[r].step > 0
            /\ ~\E w \in gone : w.id = ctx[r].root)
           => (resp[r].status = 201 /\ Stored(r))

\* a payload without images, whose map has no image, was created with 201
\* while the itinerary of the payload with images at every level is stored
C12_Witness ==
    /\ \E r \in Req :
          /\ Done(r, "create") /\ arg[r] = PBare /\ resp[r].status = 201
          /\ Stored(r) /\ db["maps"] # {} /\ db["hotel_details"] # {}
    /\ \E o \in origin :
          /\ o.payload = PFull
          /\ \E i \in db["itineraries"] : i.id = o.id

\* C13: in the committed tables every link's image_id is the id of a stored
\* image and every image is the image of exactly one link; no step, a delete
\* included, removes a row of images or image_links
C13_ImagesAndLinksPaired ==
    /\ [](/\ \A l \in db["image_links"] :
                \E i \in db["images"] : i.id = l.image_id
          /\ \A i \in db["images"] :
                Cardinality({l \in db["image_links"] : l.image_id = i.id}) = 1)
    /\ [][/\ db["images"] \subseteq db'["images"]
          /\ db["image_links"] \subseteq db'["image_links"]]_vars

\* an itinerary created with images was deleted: its links and their images
\* are still stored
C13_Witness ==
    \E w \in gone :
        /\ ~\E i \in db["itineraries"] : i.id = w.id
        /\ Cardinality(LinksOf(db, "itinerary", w.id)) >= 2
        /\ \A l \in LinksOf(db, "itinerary", w.id) :
              \E i \in db["images"] : i.id = l.image_id

====
